---- MODULE Spec2Model ----
(***************************************************************************)
(* TetWild: the tetrahedralization pipeline (tetwild_stage_one,            *)
(* tetwild_stage_two, tetrahedralization) and the output extraction        *)
(* (extractFinalTetmesh, extractInsideMesh) of src/src/tetwild/State.h.    *)
(*                                                                         *)
(* Arrays are TLA+ sequences: element i of a C++ array is element i+1 of   *)
(* the sequence, while the values stored (vertex ids, output indices) are  *)
(* the zero-based values of the code.                                      *)
(* Angles are integers in units of pi/180 rad; winding numbers and         *)
(* coordinates are integers (winding numbers in tenths, barycenters        *)
(* multiplied by four) so that every comparison of the code is exact.      *)
(***************************************************************************)
EXTENDS Integers, Sequences, FiniteSets, TLC

\* ---- bounds of the model
MaxV == 5        \* number of tet vertices held by the refinement data
MaxTets == 2     \* largest number of tets held by the refinement data

\* ---- program constants
Half == 5        \* the threshold 0.5 of the winding number, in tenths
PiUnits == 180   \* pi, in angle units
MinInit == 573   \* "double min = 10" of printFinalQuality, in angle units

VARIABLES
    pc,          \* position inside tetrahedralization()
    args_,       \* the caller's arguments (const Args &args_)
    args,        \* the local copy "Args args = args_"
    caller,      \* VO, TO, AO as the caller handed them in
    surface,     \* the input soup VI, FI
    cb,          \* invocations of args.user_callback, in order
    trace,       \* stage functions entered so far, in order
    disk,        \* files written so far
    m_vertices,  \* simplified soup, vertices
    m_faces,     \* simplified soup, faces
    MR,          \* MeshRefinement: tet_vertices, tets, t_is_removed, tet_qualities
    VO, TO, AO,  \* the output matrices
    state,       \* State: is_mesh_closed
    st_calls,    \* calls made on SimpleTetrahedralization, in order
    iof_runs,    \* number of calls of InoutFiltering::filter
    warned,      \* warnings logged by logger().warn
    records,     \* MeshRecords handed to addRecord, in order
    drv,         \* the command-line driver: its position, GArgs and State paths, files saved
    ls           \* the levelset driver: its position, arguments and remeshing options

vars == <<pc, args_, args, caller, surface, cb, trace, disk, m_vertices, m_faces, MR, VO, TO, AO,
          state, st_calls, iof_runs, warned, records, drv, ls>>

\* ---- small helpers
Range(s) == {s[i] : i \in 1..Len(s)}

CountFalse(flags) == Cardinality({i \in 1..Len(flags) : ~flags[i]})

\* std::sort followed by erase(unique): the distinct elements in ascending order
RECURSIVE sort_unique(_)
sort_unique(S) ==
    IF S = {} THEN <<>>
    ELSE LET m == CHOOSE x \in S : \A y \in S : x <= y
         IN  <<m>> \o sort_unique(S \ {m})

\* std::unordered_map::operator[] : a missing key reads as the default 0
Lookup(map, key) == IF key \in DOMAIN map THEN map[key] ELSE 0

\* ---- the data the stages work on

\* Step of the progress callback, with its position in the enumeration
StepOrder == <<"Preprocess", "Delaunay", "FaceMatching", "BSP", "Tetra", "Optimize">>

\* tet_vertices[v].posf of the refinement data: pairwise distinct rounded positions
Posf(v) == <<2 * v + 1, (v * v) % 5, 7 - v>>

VertexIds == 0..(MaxV - 1)

\* ascending corner list of a set of four vertex ids
Corners(S) == sort_unique(S)

\* the tets a mesh can hold: one tet per set of four vertices whose ids lie
\* within a window of five; the corner order is ascending or descending, so
\* that unsorted corner lists occur
TetPool ==
    { IF (Corners(S)[1] + Corners(S)[4]) % 2 = 0
         THEN Corners(S)
         ELSE <<Corners(S)[4], Corners(S)[3], Corners(S)[2], Corners(S)[1]>>
      : S \in {X \in SUBSET VertexIds :
                 /\ Cardinality(X) = 4
                 /\ \A a, b \in X : a - b <= 4} }

\* the quality record of a tet follows from its corners; min_d_angle is an
\* angle strictly between 0 and pi
TetQuality(t) ==
    [min_d_angle |-> 5 * (t[1] + t[2] + t[3] + t[4]),
     max_d_angle |-> 175 - 5 * (t[1] + t[2] + t[3] + t[4]),
     slim_energy |-> 3 + t[1]]

\* the tets of a set, listed by ascending corner sets
TetKey(t) == 2^t[1] + 2^t[2] + 2^t[3] + 2^t[4]

RECURSIVE TetList(_)
TetList(P) ==
    IF P = {} THEN <<>>
    ELSE LET t == CHOOSE x \in P : \A y \in P : TetKey(x) <= TetKey(y)
         IN  <<t>> \o TetList(P \ {t})

\* the refinement data MeshRefinement can hold: tets, tombstones and quality
\* records are parallel arrays, and a mesh never holds the same tet twice
Meshes ==
    UNION { { [tet_vertices |-> [v \in 1..MaxV |-> [posf |-> Posf(v - 1), is_rounded |-> v # 3]],
               tets |-> TetList(P),
               t_is_removed |-> rm,
               tet_qualities |-> [i \in 1..Cardinality(P) |-> TetQuality(TetList(P)[i])]]
              : rm \in [1..Cardinality(P) -> BOOLEAN] }
            : P \in {X \in SUBSET TetPool : Cardinality(X) <= MaxTets} }

EmptyMesh == [tet_vertices |-> <<>>, tets |-> <<>>, t_is_removed |-> <<>>, tet_qualities |-> <<>>]

\* the input soup: a closed box surface, given by its extent along x
\* (multiplied by four, as the barycenters are)
Surfaces == { [lo |-> 17, hi |-> 22], [lo |-> 0, hi |-> 100] }

\* igl::barycenter, multiplied by four: the coordinate sums of the corners
barycenter(V, t) ==
    [c \in 1..3 |-> V[t[1] + 1][c] + V[t[2] + 1][c] + V[t[3] + 1][c] + V[t[4] + 1][c]]

\* igl::winding_number of the soup at a point, in tenths: 1 strictly inside
\* the closed surface, 0.5 on it, 0 outside
winding_number(S, c) ==
    IF S.lo < c[1] /\ c[1] < S.hi THEN 10
    ELSE IF c[1] = S.lo \/ c[1] = S.hi THEN 5
    ELSE 0

\* ---- extractFinalTetmesh

\* InoutFiltering::filter : tombstones every tet whose winding number at the
\* barycenter is not above 0.5; tets already removed stay removed
InoutFiltering_filter(M, S) ==
    LET V == [v \in 1..Len(M.tet_vertices) |-> M.tet_vertices[v].posf]
    IN  [i \in 1..Len(M.tets) |->
            M.t_is_removed[i] \/ ~(winding_number(S, barycenter(V, M.tets[i])) > Half)]

\* the loop that gathers the vertex ids of the surviving tets
RECURSIVE collect_v_ids(_, _, _)
collect_v_ids(tets, t_is_removed, i) ==
    IF i > Len(tets) THEN <<>>
    ELSE (IF t_is_removed[i] THEN <<>> ELSE tets[i])
         \o collect_v_ids(tets, t_is_removed, i + 1)

\* v_ids gathered from every tet, removed or not
final_v_ids_all_tets(tets, t_is_removed) ==
    sort_unique(Range(collect_v_ids(tets, [i \in 1..Len(tets) |-> FALSE], 1)))

\* v_ids after sort and unique
final_v_ids(tets, t_is_removed) == sort_unique(Range(collect_v_ids(tets, t_is_removed, 1)))

\* map_ids[v_ids[i]] = i
make_map_ids(v_ids) ==
    [v \in Range(v_ids) |-> (CHOOSE i \in 1..Len(v_ids) : v_ids[i] = v) - 1]

\* V_out filled from the vertex at the row number instead of at v_ids[i]
fill_V_out_by_row(tet_vertices, v_ids) ==
    [i \in 1..Len(v_ids) |-> [j \in 1..3 |-> tet_vertices[i].posf[j]]]

\* V_out(i, j) = tet_vertices[v_ids[i]].posf[j]
fill_V_out(tet_vertices, v_ids) ==
    [i \in 1..Len(v_ids) |-> [j \in 1..3 |-> tet_vertices[v_ids[i] + 1].posf[j]]]

\* the row of T_out written for tet i
T_row(tets, map_ids, i) == [j \in 1..4 |-> Lookup(map_ids, tets[i][j])]

\* the quality record read at the output row instead of at the tet
A_entry_at_cnt(tet_qualities, i, cnt) == tet_qualities[cnt + 1].min_d_angle

\* the entry of A_out written for tet i, at row cnt
A_entry(tet_qualities, i, cnt) == tet_qualities[i].min_d_angle

\* the output loop: the rows written to T_out and A_out, in the order written
RECURSIVE output_rows(_, _, _, _, _, _)
output_rows(tets, t_is_removed, tet_qualities, map_ids, i, cnt) ==
    IF i > Len(tets) THEN <<>>
    ELSE IF t_is_removed[i]
         THEN output_rows(tets, t_is_removed, tet_qualities, map_ids, i + 1, cnt)
         ELSE <<[t |-> T_row(tets, map_ids, i), a |-> A_entry(tet_qualities, i, cnt)]>>
              \o output_rows(tets, t_is_removed, tet_qualities, map_ids, i + 1, cnt + 1)

\* a row of a resized matrix that no statement wrote
Unwritten == [t |-> <<-1, -1, -1, -1>>, a |-> -1]

\* ---- printFinalQuality

\* the value of a floating-point division by zero
NaN == "nan"

\* an integer division, which traps on a zero divisor
division_traps_on_zero(cnt) == cnt = 0

\* "x / cnt" with x a double: the division never traps
division_traps(cnt) == FALSE

\* "x / cnt" with x a double and cnt an int (whole part, for a non-zero cnt)
average(x, cnt) == IF cnt = 0 THEN NaN ELSE x \div cnt

\* the running minimum, maximum and sum of a field over the tets not removed
RECURSIVE quality_min(_, _, _, _)
quality_min(tet_qualities, t_is_removed, i, acc) ==
    IF i > Len(tet_qualities) THEN acc
    ELSE quality_min(tet_qualities, t_is_removed, i + 1,
             IF ~t_is_removed[i] /\ tet_qualities[i].min_d_angle < acc
             THEN tet_qualities[i].min_d_angle ELSE acc)

RECURSIVE quality_max(_, _, _, _, _)
quality_max(tet_qualities, t_is_removed, field, i, acc) ==
    IF i > Len(tet_qualities) THEN acc
    ELSE quality_max(tet_qualities, t_is_removed, field, i + 1,
             IF ~t_is_removed[i] /\ tet_qualities[i][field] > acc
             THEN tet_qualities[i][field] ELSE acc)

RECURSIVE quality_sum(_, _, _, _)
quality_sum(tet_qualities, t_is_removed, field, i) ==
    IF i > Len(tet_qualities) THEN 0
    ELSE (IF t_is_removed[i] THEN 0 ELSE tet_qualities[i][field])
         + quality_sum(tet_qualities, t_is_removed, field, i + 1)

\* printFinalQuality: the two records it hands to addRecord
printFinalQuality(tet_vertices, t_is_removed, tet_qualities, v_ids) ==
    LET cnt == CountFalse(t_is_removed)
        unrounded == Cardinality({i \in 1..Len(v_ids) : ~tet_vertices[v_ids[i] + 1].is_rounded})
    IN  << [op |-> "OP_WN", n_v |-> Len(v_ids), n_t |-> cnt,
            min_min_d_angle |-> quality_min(tet_qualities, t_is_removed, 1, MinInit),
            avg_min_d_angle |-> average(quality_sum(tet_qualities, t_is_removed, "min_d_angle", 1), cnt),
            max_max_d_angle |-> quality_max(tet_qualities, t_is_removed, "max_d_angle", 1, 0),
            avg_max_d_angle |-> average(quality_sum(tet_qualities, t_is_removed, "max_d_angle", 1), cnt),
            max_energy |-> quality_max(tet_qualities, t_is_removed, "slim_energy", 1, 0),
            avg_energy |-> average(quality_sum(tet_qualities, t_is_removed, "slim_energy", 1), cnt)],
           [op |-> "OP_UNROUNDED", n_v |-> unrounded, n_t |-> -1] >>

\* the test with the condition the wrong way round
runs_filter_when_smoothing(a) == a.smooth_open_boundary

\* "if (!args.smooth_open_boundary)": the in-out filter runs inside extractFinalTetmesh
runs_filter(a) == ~a.smooth_open_boundary

\* refinement data compacted in place: removed tets and their records erased
refinement_data_compacted(M, removed) ==
    LET keep == {i \in 1..Len(M.tets) : ~removed[i]}
        nth(k) == CHOOSE i \in keep : Cardinality({j \in keep : j <= i}) = k
    IN  [M EXCEPT !.tets = [k \in 1..Cardinality(keep) |-> M.tets[nth(k)]],
                  !.tet_qualities = [k \in 1..Cardinality(keep) |-> M.tet_qualities[nth(k)]],
                  !.t_is_removed = [k \in 1..Cardinality(keep) |-> FALSE]]

\* the refinement data after extractFinalTetmesh: the references tet_vertices,
\* tets and tet_qualities are only read, t_is_removed is assigned the flags
refinement_data_after(M, removed) == [M EXCEPT !.t_is_removed = removed]

\* extractFinalTetmesh: the refinement data after the call, V_out, T_out,
\* A_out, the calls of the filter, the records added and whether it trapped
extractFinalTetmesh(M, S, a) ==
    LET removed == IF runs_filter(a) THEN InoutFiltering_filter(M, S)
                   ELSE M.t_is_removed
        t_cnt   == CountFalse(removed)
        v_ids   == final_v_ids(M.tets, removed)
        map_ids == make_map_ids(v_ids)
        rows    == output_rows(M.tets, removed, M.tet_qualities, map_ids, 1, 0)
        row(k)  == IF k <= Len(rows) THEN rows[k] ELSE Unwritten
    IN  [MR    |-> refinement_data_after(M, removed),
         V_out |-> fill_V_out(M.tet_vertices, v_ids),
         T_out |-> [k \in 1..t_cnt |-> row(k).t],
         A_out |-> [k \in 1..t_cnt |-> row(k).a],
         filter_runs |-> IF runs_filter(a) THEN 1 ELSE 0,
         records |-> IF a.is_quiet THEN <<>>
                     ELSE printFinalQuality(M.tet_vertices, removed, M.tet_qualities, v_ids),
         traps |-> ~a.is_quiet /\ division_traps(t_cnt)]

\* ---- extractInsideMesh

\* extractVolumeMesh: every vertex position, and the tets that are not removed
RECURSIVE surviving_tets(_, _, _)
surviving_tets(tets, t_is_removed, i) ==
    IF i > Len(tets) THEN <<>>
    ELSE (IF t_is_removed[i] THEN <<>> ELSE <<tets[i]>>)
         \o surviving_tets(tets, t_is_removed, i + 1)

extractVolumeMesh(M) ==
    [V |-> [v \in 1..Len(M.tet_vertices) |-> M.tet_vertices[v].posf],
     T |-> surviving_tets(M.tets, M.t_is_removed, 1)]

\* the test with ">=" in the place of ">"
is_inside_or_on(w) == w >= Half

\* the test "W(t) > 0.5" on a winding number
is_inside(w) == w > Half

\* the loop "if (W(t) > 0.5) T.row(cnt++) = T.row(t)" and conservativeResize
RECURSIVE inside_rows(_, _, _)
inside_rows(T, W, t) ==
    IF t > Len(T) THEN <<>>
    ELSE (IF is_inside(W[t]) THEN <<T[t]>> ELSE <<>>) \o inside_rows(T, W, t + 1)

\* igl::remove_unreferenced: the referenced rows of V in their order, and T
\* renumbered to them
remove_unreferenced(V, T) ==
    LET ids == sort_unique(UNION {Range(T[k]) : k \in 1..Len(T)})
        I   == make_map_ids(ids)
    IN  [V |-> [i \in 1..Len(ids) |-> V[ids[i] + 1]],
         T |-> [k \in 1..Len(T) |-> [j \in 1..4 |-> I[T[k][j]]]]]

\* the filter without the final "V = VV": renumbered tets over the old vertices
inside_filter_keeps_V(V, T, S) ==
    LET W == [t \in 1..Len(T) |-> winding_number(S, barycenter(V, T[t]))]
        r == remove_unreferenced(V, inside_rows(T, W, 1))
    IN  [V |-> V, T |-> r.T]

\* the part of extractInsideMesh that follows extractVolumeMesh: winding
\* numbers at the barycenters, the selection, the renumbering and the
\* assignments V = VV, T = TT
inside_filter(V, T, S) ==
    LET W == [t \in 1..Len(T) |-> winding_number(S, barycenter(V, T[t]))]
        r == remove_unreferenced(V, inside_rows(T, W, 1))
    IN  [V |-> r.V, T |-> r.T]

extractInsideMesh(M, S) ==
    LET vol == extractVolumeMesh(M)
    IN  inside_filter(vol.V, vol.T, S)

\* ---- collaborators of the stages

\* remesh_uniform_sf: failure, or a non-empty remeshed surface
remesh_uniform_sf ==
    { [ok |-> FALSE, VO |-> <<>>, FO |-> <<>>],
      [ok |-> TRUE, VO |-> <<"mmgs_v0", "mmgs_v1", "mmgs_v2">>, FO |-> <<"mmgs_f0">>] }

\* Preprocess::process: TetWild's own simplification of the input soup
Preprocess_process == [m_vertices |-> <<"pp_v0", "pp_v1", "pp_v2">>, m_faces |-> <<"pp_f0">>]

\* MeshRefinement::refine: the first call builds the refined mesh out of the
\* initial tets; a later call works on the mesh it finds, where it can
\* tombstone more tets
MeshRefinement_refine(M) ==
    IF M = EmptyMesh THEN Meshes
    ELSE { [M EXCEPT !.t_is_removed = rm]
             : rm \in {f \in [1..Len(M.tets) -> BOOLEAN] :
                          \A i \in 1..Len(M.tets) : M.t_is_removed[i] => f[i]} }

\* remesh_uniform_3d(VO, TO, R, VO, FO, TO, R, opt): failure leaves the
\* matrices alone, success replaces them by a remeshed volume of n tets
remesh_uniform_3d(V, T) ==
    { [ok |-> FALSE, VO |-> V, TO |-> T] }
    \cup { [ok |-> TRUE,
            VO |-> [v \in 1..(n + 3) |-> <<v, v * v, 0>>],
            TO |-> [k \in 1..n |-> <<k - 1, k, k + 1, k + 2>>]]
           : n \in 1..MaxTets }

\* the file name state.working_dir + state.postfix + ".msh"
EmptyMshFile == "working_dir+postfix+.msh"

\* what the caller's VO, TO, AO hold on entry: nothing, or an earlier result
CallerOutputs ==
    { [VO |-> <<>>, TO |-> <<>>, AO |-> <<>>],
      [VO |-> <<<<0, 0, 0>>, <<4, 0, 0>>, <<0, 4, 0>>, <<0, 0, 4>>>>,
       TO |-> <<<<0, 1, 2, 3>>>>, AO |-> <<45>>] }

ArgsSet == [user_callback : BOOLEAN, use_mmgs : BOOLEAN, use_mmg3d : BOOLEAN,
            smooth_open_boundary : BOOLEAN, is_quiet : BOOLEAN]

\* the two drivers before they start
Idle == [pc |-> "idle"]

\* ---- the pipeline

Init ==
    /\ pc = "start"
    /\ args_ \in ArgsSet
    /\ args = args_
    /\ caller \in CallerOutputs
    /\ VO = caller.VO /\ TO = caller.TO /\ AO = caller.AO
    /\ surface \in Surfaces
    /\ cb = <<>>
    /\ trace = <<>>
    /\ disk = {}
    /\ m_vertices = <<>> /\ m_faces = <<>>
    /\ MR = EmptyMesh
    /\ state = [is_mesh_closed |-> FALSE]
    /\ st_calls = <<>>
    /\ iof_runs = 0
    /\ warned = {}
    /\ records = <<>>
    /\ drv = Idle
    /\ ls = Idle

\* if (args.user_callback) { args.user_callback(step, 0.0); }
user_callback(step) ==
    IF args.user_callback THEN Append(cb, [step |-> step, fraction |-> 0]) ELSE cb

\* the empty mesh saved whatever Preprocess::init returns
init_failure_files_always(init_ok) == {EmptyMshFile}

\* the files saved by the branch "if (!pp.init(...))": an empty tet mesh
init_failure_files(init_ok) == IF ~init_ok THEN {EmptyMshFile} ELSE {}

\* the branch without log_and_throw
init_failure_throws_never(init_ok) == FALSE

\* log_and_throw("Empty mesh!") at the end of the branch "if (!pp.init(...))"
init_failure_throws(init_ok) == ~init_ok

\* the warning of the branch where remesh_uniform_sf returns false
MmgsWarning == "mmgs didn't succeed, using TetWild's simplify procedure"

\* the warning of the branch where remesh_uniform_3d returns false
Mmg3dWarning == "mmg3d failed to optimize the mesh, reverting to TetWild"

\* Preprocess::process called whatever the soup holds
runs_process_always(mv) == TRUE

\* "if (m_vertices.empty())": Preprocess::process runs on an empty soup only
runs_process(mv) == mv = <<>>

tetwild_stage_one_preprocess ==
    /\ pc = "start"
    /\ cb' = user_callback("Preprocess")
    /\ trace' = Append(trace, "preprocess")
    /\ \E init_ok \in BOOLEAN :
         /\ disk' = disk \cup init_failure_files(init_ok)
         /\ IF init_failure_throws(init_ok)
            THEN \* the exception leaves tetrahedralization
                 /\ pc' = "failed"
                 /\ UNCHANGED <<m_vertices, m_faces, state, warned>>
            ELSE /\ \E closed \in BOOLEAN : state' = [state EXCEPT !.is_mesh_closed = closed]
                 /\ \E r \in remesh_uniform_sf :
                      \* m_vertices.clear(); m_faces.clear(); then the mmgs branch
                      LET mv == IF args.use_mmgs /\ r.ok THEN r.VO ELSE <<>>
                          mf == IF args.use_mmgs /\ r.ok THEN r.FO ELSE <<>>
                      IN  /\ warned' = IF args.use_mmgs /\ ~r.ok
                                       THEN warned \cup {MmgsWarning} ELSE warned
                          /\ IF runs_process(mv)
                             THEN /\ m_vertices' = mv \o Preprocess_process.m_vertices
                                  /\ m_faces' = mf \o Preprocess_process.m_faces
                             ELSE /\ m_vertices' = mv
                                  /\ m_faces' = mf
                 /\ pc' = "preprocessed"
    /\ UNCHANGED <<args_, args, caller, surface, MR, VO, TO, AO,
                   st_calls, iof_runs, records, drv, ls>>

\* a stage of tetwild_stage_one that reports its step and runs on the
\* data of the stages before it
stage_one_step(from, step, name, to) ==
    /\ pc = from
    /\ cb' = user_callback(step)
    /\ trace' = Append(trace, name)
    /\ pc' = to
    /\ UNCHANGED <<args_, args, caller, surface, disk, m_vertices, m_faces, MR, VO, TO, AO,
                   state, st_calls, iof_runs, warned, records, drv, ls>>

tetwild_stage_one_delaunay == stage_one_step("preprocessed", "Delaunay", "delaunay", "delaunay_done")

\* face matching that reports the step of the next stage
tetwild_stage_one_mc_wrong_step == stage_one_step("delaunay_done", "BSP", "mc", "mc_done")

tetwild_stage_one_mc == stage_one_step("delaunay_done", "FaceMatching", "mc", "mc_done")

\* BSP subdivision called ahead of face matching
tetwild_stage_one_bsp_before_mc == stage_one_step("delaunay_done", "BSP", "bsp", "bsp_done")

tetwild_stage_one_bsp == stage_one_step("mc_done", "BSP", "bsp", "bsp_done")

\* open-boundary labelling run for closed inputs instead of open ones
labels_boundary_when_closed(st) == st.is_mesh_closed

\* "if (!state.is_mesh_closed)": the input is an open mesh
labels_boundary(st) == ~st.is_mesh_closed

\* the calls tetwild_stage_one_tetra makes on SimpleTetrahedralization ST
SimpleTetrahedralization_calls(st) ==
    <<"tetra", "labelSurface", "labelBbox">>
    \o (IF labels_boundary(st) THEN <<"labelBoundary">> ELSE <<>>)

tetwild_stage_one_tetra ==
    /\ pc = "bsp_done"
    /\ cb' = user_callback("Tetra")
    /\ trace' = Append(trace, "tetra")
    /\ st_calls' = st_calls \o SimpleTetrahedralization_calls(state)
    /\ pc' = "stage_one_done"
    /\ UNCHANGED <<args_, args, caller, surface, disk, m_vertices, m_faces, MR, VO, TO, AO,
                   state, iof_runs, warned, records, drv, ls>>

\* tetwild_stage_two up to the end of MR.refine(state.ENERGY_AMIPS)
tetwild_stage_two_refine ==
    /\ pc = "stage_one_done"
    /\ cb' = user_callback("Optimize")
    /\ trace' = Append(trace, "refine")
    /\ MR' \in MeshRefinement_refine(MR)
    /\ pc' = "refined"
    /\ UNCHANGED <<args_, args, caller, surface, disk, m_vertices, m_faces, VO, TO, AO,
                   state, st_calls, iof_runs, warned, records, drv, ls>>

\* the branch "else { extractFinalTetmesh(MR, VO, TO, AO, args, state); }"
tetwild_stage_two_final ==
    /\ pc = "refined"
    /\ ~args.use_mmg3d
    /\ LET r == extractFinalTetmesh(MR, surface, args)
       IN  /\ MR' = r.MR
           /\ VO' = r.V_out
           /\ TO' = r.T_out
           /\ AO' = r.A_out
           /\ iof_runs' = iof_runs + r.filter_runs
           /\ records' = records \o r.records
           /\ pc' = IF r.traps THEN "crashed" ELSE "done"
    /\ trace' = Append(trace, "extractFinalTetmesh")
    /\ UNCHANGED <<args_, args, caller, surface, cb, disk, m_vertices, m_faces,
                   state, st_calls, warned, drv, ls>>

\* the branch "if (args.use_mmg3d)", up to the end of extractInsideMesh
tetwild_stage_two_inside ==
    /\ pc = "refined"
    /\ args.use_mmg3d
    /\ LET r == extractInsideMesh(MR, surface)
       IN  /\ VO' = r.V
           /\ TO' = r.T
    /\ trace' = Append(trace, "extractInsideMesh")
    /\ pc' = "inside"
    /\ UNCHANGED <<args_, args, caller, surface, cb, disk, m_vertices, m_faces, MR, AO,
                   state, st_calls, iof_runs, warned, records, drv, ls>>

\* the branch "if (args.use_mmg3d)", from remesh_uniform_3d to the end
tetwild_stage_two_mmg3d ==
    /\ pc = "inside"
    /\ \E r \in remesh_uniform_3d(VO, TO) :
         IF r.ok
         THEN /\ VO' = r.VO
              /\ TO' = r.TO
              /\ AO' = [k \in 1..Len(r.TO) |-> 0]
              /\ UNCHANGED <<args, MR, trace, warned>>
         ELSE /\ warned' = warned \cup {Mmg3dWarning}
              /\ args' = [args EXCEPT !.use_mmg3d = FALSE]
              /\ trace' = Append(trace, "refine")
              /\ MR' \in MeshRefinement_refine(MR)
              /\ UNCHANGED <<VO, TO, AO>>
    /\ pc' = "done"
    /\ UNCHANGED <<args_, caller, surface, cb, disk, m_vertices, m_faces,
                   state, st_calls, iof_runs, records, drv, ls>>

Next ==
    \/ tetwild_stage_one_preprocess
    \/ tetwild_stage_one_delaunay
    \/ tetwild_stage_one_mc
    \/ tetwild_stage_one_bsp
    \/ tetwild_stage_one_tetra
    \/ tetwild_stage_two_refine
    \/ tetwild_stage_two_final
    \/ tetwild_stage_two_inside
    \/ tetwild_stage_two_mmg3d

Spec == Init /\ [][Next]_vars

\* ---- the command-line driver (main and saveFinalTetmesh)

\* size_t arithmetic wraps modulo this power of two; every string of the
\* model is far shorter, as every file name is in the build
SizeMod == 65536

\* a.size() - b for the unsigned type size_t
size_minus(n, b) == (n - b + SizeMod) % SizeMod

Min(a, b) == IF a < b THEN a ELSE b

\* std::string::substr(pos, n): throws std::out_of_range when pos > size(),
\* else the characters [pos, min(pos + n, size()))
substr(str, pos, n) ==
    IF pos > Len(str) THEN [throws |-> TRUE, str |-> <<>>]
    ELSE [throws |-> FALSE, str |-> SubSeq(str, pos + 1, Min(pos + n, Len(str)))]

\* file names, as sequences of characters
DotMsh == <<".", "m", "s", "h">>
DotCsv == <<".", "c", "s", "v">>
SfObj == <<"_", "s", "f", ".", "o", "b", "j">>
FormatMesh == <<"m", "e", "s", "h">>

\* command lines: the positional input, --output, --postfix, -q, and the
\* slz_file field of GArgs
Inputs == { <<"a", "b", ".", "o", "f", "f">>,
            <<"b", "u", "n", "n", "y", ".", "o", "b", "j">>,
            <<"m", ".", "x">> }
Outputs == { <<>>, <<"o", "u", "t">>, <<"t", ".", "m", "e", "s", "h">>,
             <<"t", ".", "m", "s", "h">>, <<"m", "e", "s", "h">> }
Postfixes == { <<"_">>, <<"_", "2">> }
SlzFiles == { <<>>, <<"m", "o", "d", "e", "l", ".", "s", "l", "z">>, <<"s", ".", "s", "l", "z">> }

GArgsSet == [input : Inputs, output : Outputs, postfix : Postfixes, slz_file : SlzFiles,
             is_quiet : BOOLEAN]

\* what tetrahedralization or gtet_new_slz hands back in VO, TO, AO
DriverResults ==
    { [VO |-> r.V_out, TO |-> r.T_out, AO |-> r.A_out]
        : r \in { extractFinalTetmesh(M, [lo |-> 0, hi |-> 100],
                      [user_callback |-> FALSE, use_mmgs |-> FALSE, use_mmg3d |-> FALSE,
                       smooth_open_boundary |-> FALSE, is_quiet |-> TRUE])
                    : M \in Meshes } }

\* the lines of the Tetrahedra block: "f << T(i, j) + 1" four times, then "f << 0"
mesh_tet_lines(T) == [i \in 1..Len(T) |-> [j \in 1..5 |-> IF j <= 4 THEN T[i][j] + 1 ELSE 0]]

\* the lines of the Vertices block: the three coordinates, then 0
mesh_vertex_lines(V) == [i \in 1..Len(V) |-> [j \in 1..4 |-> IF j <= 3 THEN V[i][j] ELSE 0]]

\* the .mesh text written by the branch output_format == "mesh"
mesh_file(V, T) ==
    [format |-> "mesh", n_vertices |-> Len(V), vertices |-> mesh_vertex_lines(V),
     n_triangles |-> 0, n_tets |-> Len(T), tets |-> mesh_tet_lines(T)]

\* the .msh file of PyMesh::MshSaver: save_mesh, then save_elem_scalar_field
MshSaver_save(V, T, A) ==
    [format |-> "msh", vertices |-> V, tets |-> T,
     elem_fields |-> [name |-> "min_dihedral_angle", values |-> A]]

\* the surface companion written by igl::writeOBJ
obj_file == [format |-> "obj"]

\* the driver when main is entered, its arguments parsed
InitDriver ==
    /\ drv \in { [pc |-> "parsed", gargs |-> g, working_dir |-> <<>>, stat_file |-> <<>>,
                  output_file |-> <<>>, files |-> {}] : g \in GArgsSet }
    /\ pc = "start"
    /\ args_ = [user_callback |-> FALSE, use_mmgs |-> FALSE, use_mmg3d |-> FALSE,
                smooth_open_boundary |-> FALSE, is_quiet |-> drv.gargs.is_quiet]
    /\ args = args_
    /\ caller = [VO |-> <<>>, TO |-> <<>>, AO |-> <<>>]
    /\ VO = <<>> /\ TO = <<>> /\ AO = <<>>
    /\ surface = [lo |-> 0, hi |-> 100]
    /\ cb = <<>> /\ trace = <<>> /\ disk = {}
    /\ m_vertices = <<>> /\ m_faces = <<>>
    /\ MR = EmptyMesh
    /\ state = [is_mesh_closed |-> FALSE]
    /\ st_calls = <<>> /\ iof_runs = 0 /\ warned = {} /\ records = <<>>
    /\ ls = Idle

\* main, from "State::state().postfix = ..." to the choice of output_file
main_initialization ==
    /\ drv.pc = "parsed"
    /\ LET g  == drv.gargs
           wd == IF g.slz_file # <<>>
                 THEN substr(g.input, 0, size_minus(Len(g.slz_file), 4)).str
                 ELSE substr(g.input, 0, size_minus(Len(g.input), 4)).str
       IN  drv' = [drv EXCEPT !.pc = "initialized",
                              !.working_dir = wd,
                              !.stat_file = wd \o g.postfix \o DotCsv,
                              !.output_file = IF g.output = <<>> THEN wd \o g.postfix \o DotMsh
                                              ELSE g.output]
    /\ UNCHANGED <<pc, args_, args, caller, surface, cb, trace, disk, m_vertices, m_faces, MR,
                   VO, TO, AO, state, st_calls, iof_runs, warned, records, ls>>

\* main, "do tetrahedralization": gtet_new_slz or tetrahedralization fills
\* VO, TO, AO, or the exception of an empty input ends the program
main_tetrahedralization ==
    /\ drv.pc = "initialized"
    /\ \/ /\ \E r \in DriverResults : VO' = r.VO /\ TO' = r.TO /\ AO' = r.AO
          /\ drv' = [drv EXCEPT !.pc = "meshed"]
       \/ /\ drv.gargs.slz_file = <<>>
          /\ drv' = [drv EXCEPT !.pc = "terminated"]
          /\ UNCHANGED <<VO, TO, AO>>
    /\ UNCHANGED <<pc, args_, args, caller, surface, cb, trace, disk, m_vertices, m_faces, MR,
                   state, st_calls, iof_runs, warned, records, ls>>

\* saveFinalTetmesh(VO, TO, AO)
saveFinalTetmesh ==
    /\ drv.pc = "meshed"
    /\ LET output_format == substr(drv.output_file, size_minus(Len(drv.output_file), 4), 4)
           mesh == IF output_format.str = FormatMesh
                   THEN [name |-> drv.output_file, content |-> mesh_file(VO, TO)]
                   ELSE [name |-> drv.output_file, content |-> MshSaver_save(VO, TO, AO)]
           sf   == [name |-> drv.working_dir \o drv.gargs.postfix \o SfObj, content |-> obj_file]
       IN  IF output_format.throws
           THEN \* std::out_of_range leaves main: nothing was opened
                drv' = [drv EXCEPT !.pc = "out_of_range"]
           ELSE drv' = [drv EXCEPT !.pc = "saved",
                                   !.files = IF drv.gargs.is_quiet THEN {mesh} ELSE {mesh, sf}]
    /\ UNCHANGED <<pc, args_, args, caller, surface, cb, trace, disk, m_vertices, m_faces, MR,
                   VO, TO, AO, state, st_calls, iof_runs, warned, records, ls>>

NextDriver ==
    \/ main_initialization
    \/ main_tetrahedralization
    \/ saveFinalTetmesh

SpecDriver == InitDriver /\ [][NextDriver]_vars

\* ---- the levelset driver (misc/levelset.cpp)

\* command-line values of --mesh_size and --epsilon are held in thousandths
\* (100 stands for 0.1); lengths are integers
Unit == 1000

\* "args.mesh_size == 0.0 ? 1.0 * diag : args.mesh_size / 100.0 * diag"
effective_mesh_size(mesh_size, diag) ==
    IF mesh_size = 0 THEN diag ELSE (mesh_size * diag) \div (100 * Unit)

\* "args.epsilon == 0.0 ? 0.1 * diag : args.epsilon / 100.0 * diag"
effective_epsilon(epsilon, diag) ==
    IF epsilon = 0 THEN diag \div 10 ELSE (epsilon * diag) \div (100 * Unit)

\* "if (args.num_samples == 0) args.num_samples = VI.rows()"
effective_num_samples(num_samples, rows) == IF num_samples = 0 THEN rows ELSE num_samples

\* the parsed arguments: 0 is the value of an option that was not given
LevelsetArgs ==
    [mesh_size : {0, Unit, 50 * Unit}, epsilon : {0, 100, Unit, 10 * Unit},
     num_samples : {0, 50}, sharp : BOOLEAN]

\* the input mesh: its bounding-box diagonal and its number of vertices
LevelsetInputs == [diag : {1000, 2000, 5000}, rows : {8, 100}]

\* the levelset driver after the input was loaded
InitLevelset ==
    /\ ls \in { [pc |-> "loaded", given |-> a, args |-> a, diag |-> i.diag, rows |-> i.rows,
                 opt |-> [hmin |-> 0, hmax |-> 0, hausd |-> 0, angle_detection |-> FALSE]]
                  : a \in LevelsetArgs, i \in LevelsetInputs }
    /\ drv = Idle
    /\ pc = "start"
    /\ args_ = [user_callback |-> FALSE, use_mmgs |-> FALSE, use_mmg3d |-> FALSE,
                smooth_open_boundary |-> FALSE, is_quiet |-> FALSE]
    /\ args = args_
    /\ caller = [VO |-> <<>>, TO |-> <<>>, AO |-> <<>>]
    /\ VO = <<>> /\ TO = <<>> /\ AO = <<>>
    /\ surface = [lo |-> 0, hi |-> 100]
    /\ cb = <<>> /\ trace = <<>> /\ disk = {}
    /\ m_vertices = <<>> /\ m_faces = <<>>
    /\ MR = EmptyMesh
    /\ state = [is_mesh_closed |-> FALSE]
    /\ st_calls = <<>> /\ iof_runs = 0 /\ warned = {} /\ records = <<>>

\* "Compute default arguments"
levelset_defaults ==
    /\ ls.pc = "loaded"
    /\ ls' = [ls EXCEPT !.pc = "defaulted",
                        !.args.mesh_size = effective_mesh_size(ls.args.mesh_size, ls.diag),
                        !.args.epsilon = effective_epsilon(ls.args.epsilon, ls.diag),
                        !.args.num_samples = effective_num_samples(ls.args.num_samples, ls.rows)]
    /\ UNCHANGED <<pc, args_, args, caller, surface, cb, trace, disk, m_vertices, m_faces, MR,
                   VO, TO, AO, state, st_calls, iof_runs, warned, records, drv>>

\* "Remesh": the MmgOptions handed to isosurface_remeshing
levelset_remesh ==
    /\ ls.pc = "defaulted"
    /\ ls' = [ls EXCEPT !.pc = "remeshed",
                        !.opt = [hmin |-> Min(ls.args.mesh_size \div 10, ls.diag \div 100),
                                 hmax |-> ls.args.mesh_size,
                                 hausd |-> ls.args.epsilon,
                                 angle_detection |-> ls.args.sharp]]
    /\ UNCHANGED <<pc, args_, args, caller, surface, cb, trace, disk, m_vertices, m_faces, MR,
                   VO, TO, AO, state, st_calls, iof_runs, warned, records, drv>>

NextLevelset ==
    \/ levelset_defaults
    \/ levelset_remesh

SpecLevelset == InitLevelset /\ [][NextLevelset]_vars

\* ---- properties

\* position of a stage function among the stages of the pipeline
StageRank(name) ==
    CASE name = "preprocess" -> 1
      [] name = "delaunay" -> 2
      [] name = "mc" -> 3
      [] name = "bsp" -> 4
      [] name = "tetra" -> 5
      [] name = "refine" -> 6
      [] name = "extractFinalTetmesh" -> 7
      [] name = "extractInsideMesh" -> 7

\* the stages entered are the first Len(tr) stages, each entered once, in order
InOrder(tr) == \A i \in 1..Len(tr) : StageRank(tr[i]) = i

\* the remesher failed and stage two fell back: use_mmg3d was switched off
Reverted == args_.use_mmg3d /\ ~args.use_mmg3d

\* C1 as stated: in every run the stages are entered strictly in the order
\* preprocess, Delaunay, face matching, BSP, tetrahedralization, refinement,
\* filtering + extraction, and no earlier stage is entered again
C1_StrictStageOrder ==
    /\ InOrder(trace)
    /\ pc = "done" => Len(trace) = 7

\* C1 amended: the stages are entered strictly in that order, except that
\* after a failed 3D remesher refinement is entered a second time, after the
\* inside/outside extraction, and nothing is entered after it
C1_StageOrderUpToRevert ==
    IF Reverted
    THEN /\ pc = "done"
         /\ Len(trace) = 8
         /\ InOrder(SubSeq(trace, 1, 7))
         /\ trace[7] = "extractInsideMesh"
         /\ trace[8] = "refine"
    ELSE C1_StrictStageOrder

C1_Witness == pc = "done" /\ Reverted /\ Len(trace) = 8

\* C2: with a callback set, the callback is invoked with the steps
\* Preprocess, Delaunay, FaceMatching, BSP, Tetra, Optimize in this order,
\* each once and with a fraction in [0,1], and a run that completes has
\* invoked it exactly six times
C2_SixCallbacksInOrder ==
    args_.user_callback =>
        /\ Len(cb) <= 6
        /\ \A i \in 1..Len(cb) :
              /\ cb[i].step = StepOrder[i]
              /\ 0 <= cb[i].fraction /\ cb[i].fraction <= 1
        /\ pc = "done" => Len(cb) = 6

C2_Witness == pc = "done" /\ args_.user_callback /\ Len(cb) = 6

\* the run returned through extractFinalTetmesh
AfterFinal == pc = "done" /\ trace[Len(trace)] = "extractFinalTetmesh"

\* C3: after extractFinalTetmesh every entry of TO is a zero-based index of
\* a row of VO, and every row of VO is referenced by some row of TO
C3_DenseIndices ==
    AfterFinal =>
        /\ \A k \in 1..Len(TO) : \A j \in 1..4 : TO[k][j] \in 0..(Len(VO) - 1)
        /\ \A i \in 0..(Len(VO) - 1) : \E k \in 1..Len(TO) : \E j \in 1..4 : TO[k][j] = i

\* a surviving tet whose corners were renumbered, next to a removed one
C3_Witness ==
    /\ AfterFinal
    /\ Len(MR.tets) = 2 /\ Len(TO) = 1 /\ Len(VO) = 4
    /\ \E i \in 1..2 : ~MR.t_is_removed[i] /\ MR.tets[i] # TO[1]

\* C4 as stated: on return AO has as many entries as TO has rows
C4_AOMatchesTO == pc = "done" => Len(AO) = Len(TO)

\* the index of the k-th tet that is not removed
KthSurvivor(removed, k) ==
    CHOOSE i \in 1..Len(removed) :
        ~removed[i] /\ Cardinality({j \in 1..i : ~removed[j]}) = k

\* the positions of the corners of a tet
TetPositions(V, t) == [j \in 1..4 |-> V[t[j] + 1]]

MRPositions == [v \in 1..Len(MR.tet_vertices) |-> MR.tet_vertices[v].posf]

\* C5: row k of TO holds the corners of the k-th surviving tet and AO[k] is
\* the min_d_angle of the quality record of that same tet
C5_AOFollowsTO ==
    AfterFinal =>
        /\ Len(AO) = CountFalse(MR.t_is_removed)
        /\ \A k \in 1..Len(AO) :
              LET i == KthSurvivor(MR.t_is_removed, k)
              IN  /\ AO[k] = MR.tet_qualities[i].min_d_angle
                  /\ TetPositions(VO, TO[k]) = TetPositions(MRPositions, MR.tets[i])

\* a removed tet precedes a surviving one whose quality differs
C5_Witness ==
    /\ AfterFinal
    /\ Len(MR.tets) = 2 /\ MR.t_is_removed[1] /\ ~MR.t_is_removed[2]
    /\ MR.tet_qualities[1] # MR.tet_qualities[2]
    /\ Len(AO) = 1

\* C6 as stated: every reported AO[i] lies strictly between 0 and pi, on
\* every output path
C6_AOInOpenInterval ==
    pc = "done" => \A k \in 1..Len(AO) : 0 < AO[k] /\ AO[k] < PiUnits

\* the winding number at the barycenter of tet i of the refinement data
WindingOfTet(i) == winding_number(surface, barycenter(MRPositions, MR.tets[i]))

\* the tets of the output, as corner positions
OutputTets == {TetPositions(VO, TO[k]) : k \in 1..Len(TO)}

\* C7: extractInsideMesh keeps a tet iff its winding number is above 0.5:
\* the output holds exactly the tets that were not removed and have w > 0.5
C7_KeepsIffAboveHalf ==
    pc = "inside" =>
        /\ \A i \in 1..Len(MR.tets) :
              ~MR.t_is_removed[i] =>
                  (WindingOfTet(i) > Half
                     <=> TetPositions(MRPositions, MR.tets[i]) \in OutputTets)
        /\ Len(TO) = Cardinality({i \in 1..Len(MR.tets) :
                                     ~MR.t_is_removed[i] /\ WindingOfTet(i) > Half})

\* a tet with w = 0.5 exactly is dropped next to one with w > 0.5 that is kept
C7_Witness ==
    /\ pc = "inside"
    /\ Len(TO) = 1
    /\ \E i \in 1..Len(MR.tets) : ~MR.t_is_removed[i] /\ WindingOfTet(i) = Half

\* C8: filtering the output of the filter again, with the same input
\* surface, gives the same tets and the same vertices
C8_FilterIdempotent ==
    pc = "inside" => inside_filter(VO, TO, surface) = [V |-> VO, T |-> TO]

\* the first application dropped a tet and vertices, and kept a tet
C8_Witness ==
    /\ pc = "inside"
    /\ Len(TO) = 1 /\ Len(VO) = 4
    /\ CountFalse(MR.t_is_removed) = 2

\* C9: when Preprocess::init reports an empty soup (the empty mesh file is
\* what it leaves behind), the run has failed, preprocess is the only stage
\* entered, the only callback is Preprocess, and VO, TO, AO are the caller's
C9_EmptyInputAborts ==
    (pc = "failed" \/ EmptyMshFile \in disk) =>
        /\ pc = "failed"
        /\ trace = <<"preprocess">>
        /\ Len(cb) <= 1
        /\ \A i \in 1..Len(cb) : cb[i].step = "Preprocess"
        /\ VO = caller.VO /\ TO = caller.TO /\ AO = caller.AO

C9_Witness == pc = "failed" /\ Len(cb) = 1 /\ AO # <<>>

\* C10 as stated: the pipeline never writes a file, on any path
C10_NoFileWritten == disk = {}

\* C10 amended: a run that does not fail writes no file, and the run that
\* fails on an empty soup writes the empty tet mesh and nothing else
C10_OnlyEmptyMeshOnFailure ==
    /\ pc # "failed" => disk = {}
    /\ pc = "failed" => disk = {EmptyMshFile}

C10_Witness == pc = "failed" /\ disk = {EmptyMshFile}

\* C11: extractFinalTetmesh leaves the tet array, the tet-vertex array and
\* the quality array of the refinement data as they were, lengths and
\* contents; removal shows in t_is_removed only, which keeps one flag per
\* tet, and only the output matrices are compacted to the surviving tets
C11_TombstonesOnly ==
    [][(pc = "refined" /\ ~args.use_mmg3d) =>
          /\ MR'.tets = MR.tets
          /\ MR'.tet_vertices = MR.tet_vertices
          /\ MR'.tet_qualities = MR.tet_qualities
          /\ Len(MR'.t_is_removed) = Len(MR.tets)
          /\ Len(TO') = CountFalse(MR'.t_is_removed)
          /\ Len(AO') = CountFalse(MR'.t_is_removed)]_vars

\* the output holds fewer tets and vertices than the refinement data keeps
C11_Witness ==
    /\ AfterFinal
    /\ Len(MR.tets) = 2 /\ Len(MR.tet_qualities) = 2 /\ Len(TO) = 1
    /\ Len(VO) < Len(MR.tet_vertices)
    /\ CountFalse(MR.t_is_removed) = 1

\* C12: the simple-tetrahedralization stage calls tetra, labelSurface and
\* labelBbox in that order whatever the input, and calls labelBoundary, as
\* the fourth and last call, exactly when is_mesh_closed is false
C12_BoundaryLabelling ==
    /\ st_calls = <<>> <=> pc \in {"start", "failed", "preprocessed", "delaunay_done",
                                   "mc_done", "bsp_done"}
    /\ st_calls # <<>> =>
          /\ Len(st_calls) \in {3, 4}
          /\ SubSeq(st_calls, 1, 3) = <<"tetra", "labelSurface", "labelBbox">>
          /\ Len(st_calls) = 4 <=> ~state.is_mesh_closed
          /\ Len(st_calls) = 4 => st_calls[4] = "labelBoundary"

\* an open input: labelBoundary ran after the three other calls
C12_Witness ==
    /\ ~state.is_mesh_closed
    /\ Len(st_calls) = 4 /\ st_calls[4] = "labelBoundary"

\* the tets of the refinement data that are not removed, in their order
SurvivorRows ==
    [k \in 1..CountFalse(MR.t_is_removed) |-> MR.tets[KthSurvivor(MR.t_is_removed, k)]]

\* C16: TO has one row per surviving tet, in the order the tets have in the
\* refinement data, and for every row k and corner j the row of VO at index
\* TO(k, j) is posf of the vertex at corner j of that tet
C16_GeometryAndOrder ==
    AfterFinal =>
        /\ Len(TO) = Len(SurvivorRows)
        /\ \A k \in 1..Len(TO) : \A j \in 1..4 :
              VO[TO[k][j] + 1] = MR.tet_vertices[SurvivorRows[k][j] + 1].posf

\* the surviving tet follows a removed one, was renumbered and has its
\* corners in descending order
C16_Witness ==
    /\ AfterFinal
    /\ Len(MR.tets) = 2 /\ Len(TO) = 1
    /\ TO[1] # SurvivorRows[1] /\ TO[1][1] > TO[1][2]

\* the output matrices V, T hold exactly the tets that the flags leave, in order
OutputIs(V, T, flags) ==
    /\ Len(T) = CountFalse(flags)
    /\ \A k \in 1..Len(T) :
          TetPositions(V, T[k]) = TetPositions(MRPositions, MR.tets[KthSurvivor(flags, k)])

\* C17: with smooth_open_boundary the filter is not called, t_is_removed
\* stays as refinement left it and the output has the tets not removed on
\* entry; without it the filter is called once, its result becomes
\* t_is_removed and the output rows are the tets that result leaves
C17_FilterUnlessSmoothing ==
    [][(pc = "refined" /\ ~args.use_mmg3d) =>
          IF args.smooth_open_boundary
          THEN /\ iof_runs' = iof_runs
               /\ MR'.t_is_removed = MR.t_is_removed
               /\ OutputIs(VO', TO', MR.t_is_removed)
          ELSE /\ iof_runs' = iof_runs + 1
               /\ MR'.t_is_removed = InoutFiltering_filter(MR, surface)
               /\ OutputIs(VO', TO', InoutFiltering_filter(MR, surface))]_vars

\* smoothing run: a tet the filter would have dropped is in the output
C17_Witness ==
    /\ AfterFinal
    /\ args.smooth_open_boundary /\ iof_runs = 0
    /\ \E i \in 1..Len(MR.tets) : ~MR.t_is_removed[i] /\ ~(WindingOfTet(i) > Half)
    /\ Len(TO) >= 1

\* C18 as stated: after the remesher failed, VO, TO, AO are what the
\* use_mmg3d = false path makes of the mesh of the last refinement
C18_RevertGivesOwnResult ==
    (pc = "done" /\ Reverted) =>
        LET r == extractFinalTetmesh(MR, surface, args)
        IN  VO = r.V_out /\ TO = r.T_out /\ AO = r.A_out

\* C19: after preprocessing the soup is the output of one simplifier: that
\* of the surface remesher when use_mmgs is set and it succeeded, and that
\* of Preprocess::process on an empty soup otherwise
C19_OneSimplifier ==
    pc \notin {"start", "failed"} =>
        IF args.use_mmgs /\ MmgsWarning \notin warned
        THEN \E r \in remesh_uniform_sf :
                r.ok /\ r.VO # <<>> /\ m_vertices = r.VO /\ m_faces = r.FO
        ELSE /\ m_vertices = Preprocess_process.m_vertices
             /\ m_faces = Preprocess_process.m_faces

\* the remesher failed and the soup is that of Preprocess::process alone
C19_Witness ==
    /\ pc = "preprocessed"
    /\ args.use_mmgs /\ MmgsWarning \in warned
    /\ m_vertices = Preprocess_process.m_vertices

\* C20: when extractFinalTetmesh leaves every tet removed it returns
\* normally, with no row in VO, no row in TO and no entry in AO, whether
\* is_quiet is set or not
C20_AllRemovedGivesEmptyOutputs ==
    (trace # <<>> /\ trace[Len(trace)] = "extractFinalTetmesh"
       /\ \A i \in 1..Len(MR.tets) : MR.t_is_removed[i]) =>
        /\ pc = "done"
        /\ VO = <<>> /\ TO = <<>> /\ AO = <<>>

\* non-quiet run over a mesh whose tets are all removed: the quality report
\* counted no tet and divided by that count
C20_Witness ==
    /\ AfterFinal
    /\ ~args.is_quiet
    /\ Len(MR.tets) = 2 /\ CountFalse(MR.t_is_removed) = 0
    /\ TO = <<>>
    /\ Len(records) = 2 /\ records[1].op = "OP_WN" /\ records[1].n_t = 0
    /\ records[1].avg_min_d_angle = NaN /\ records[1].min_min_d_angle = MinInit

\* the name ends in "mesh": the test saveFinalTetmesh makes on output_file
EndsInMesh(name) ==
    Len(name) >= 4 /\ SubSeq(name, Len(name) - 3, Len(name)) = FormatMesh

\* the driver has run saveFinalTetmesh on VO, TO, AO
SaveRan == drv.pc \in {"saved", "out_of_range"}

\* C13 as stated: after the driver saved the result, the output file holds,
\* for a name ending in "mesh", one line per row of TO with the four entries
\* plus one, each in 1..#V, and a final 0, and for any other name the .msh
\* data with AO attached as the element field min_dihedral_angle
C13_SavedAsMeshOrMsh ==
    SaveRan =>
        \E f \in drv.files :
            /\ f.name = drv.output_file
            /\ IF EndsInMesh(drv.output_file)
               THEN /\ f.content.format = "mesh"
                    /\ Len(f.content.tets) = Len(TO)
                    /\ \A i \in 1..Len(TO) :
                          /\ \A j \in 1..4 : /\ f.content.tets[i][j] = TO[i][j] + 1
                                             /\ f.content.tets[i][j] \in 1..Len(VO)
                          /\ f.content.tets[i][5] = 0
               ELSE /\ f.content.format = "msh"
                    /\ f.content.tets = TO
                    /\ f.content.elem_fields = [name |-> "min_dihedral_angle", values |-> AO]

C14_DefaultEpsilonIsTenthPercent ==
    (ls.pc = "remeshed" /\ ls.given.epsilon = 0) =>
        /\ ls.opt.hausd * 1000 = ls.diag
        /\ ls.opt.hausd = effective_epsilon(100, ls.diag)

====
